---- MODULE Spec2Model ----
(***************************************************************************)
(* The workflow controller of src/src/App.tsx: the five useState cells of  *)
(* the App component, the processing effect with its interval timer and    *)
(* its one-shot timeout, and the four event handlers.                      *)
(*                                                                         *)
(* React runs the effect of lines 115-129 after every commit in which      *)
(* `step` differs from the value the effect last ran with; the commit      *)
(* (render) and the effect are two steps of the model, and nothing else    *)
(* runs between them.  Timers are the browser's: a live interval is an id  *)
(* in `intervals`, a setTimeout that has not fired yet is counted in       *)
(* `timeouts`.                                                             *)
(***************************************************************************)
EXTENDS Integers, Sequences, FiniteSets

\* ------------------------------------------------------------- bounds
\* Number of distinct files the file picker can yield.
NumFiles == 2
\* Number of catalogue entries (from the front of analysisOptions) offered.
NumOptions == 3

\* ------------------------------------------------- program constants
\* useState<File | null>(null): the absent file.
NoFile == 0
\* Math.min(100, ...) / next >= 100.
Full == 100

\* The catalogue ids, in catalogue order.
analysisOptions == <<"mobsf", "mitmproxy", "androguard", "frida", "drozer">>

\* The ids a checkbox of the dialog can pass to toggleOption.
OptionIds ==
    {analysisOptions[i] : i \in 1..(IF NumOptions < Len(analysisOptions)
                                    THEN NumOptions ELSE Len(analysisOptions))}

\* The files event.target.files?.[0] can be; NoFile when the picker is cancelled.
Files == 1..NumFiles

\* Math.random() * 18 lies in [0, 18); sampled in whole percentage points.
Increments == {0, 9, 17}

WorkflowStep == {"idle", "processing", "summary"}

VARIABLES
    file,             \* useState<File | null>
    dialogOpen,       \* useState(false)
    selectedOptions,  \* useState<string[]>(['mobsf'])
    step,             \* useState<WorkflowStep>('idle')
    progress,         \* useState(0)
    mounted,          \* the component is mounted
    effectStep,       \* the value of `step` the effect last ran with (its deps)
    timer,            \* the interval id held by the live effect's closure, 0 if none
    intervals,        \* ids of the intervals that are set and not cleared
    timeouts,         \* number of setTimeout callbacks scheduled and not yet fired
    lastEvent         \* history: the handler or callback that ran last

vars == <<file, dialogOpen, selectedOptions, step, progress, mounted,
          effectStep, timer, intervals, timeouts, lastEvent>>

Ev(op, option, nextFile) == [op |-> op, option |-> option, nextFile |-> nextFile]

\* ------------------------------------------------------------ helpers
Min(a, b) == IF a < b THEN a ELSE b

\* prev.includes(optionId)
Includes(prev, optionId) == \E i \in 1..Len(prev) : prev[i] = optionId

\* Mutant of Without: the filter's test inverted.
Without_inverted(prev, optionId) == SelectSeq(prev, LAMBDA id : id = optionId)

\* prev.filter((id) => id !== optionId)
Without(prev, optionId) == SelectSeq(prev, LAMBDA id : id # optionId)

\* The updater passed to setSelectedOptions.
ToggledOptions(prev, optionId) ==
    IF Includes(prev, optionId) THEN Without(prev, optionId)
                                ELSE Append(prev, optionId)

\* Mutant of analysisReady: the file test dropped.
analysisReady_optionsOnly == Len(selectedOptions) # 0

\* const analysisReady = Boolean(file && selectedOptions.length)
analysisReady == file # NoFile /\ Len(selectedOptions) # 0

\* Mutant of NextProgress: the clamp to 100 dropped.
NextProgress_noClamp(prev, inc) == prev + inc

\* Math.min(100, prev + Math.random() * 18)
NextProgress(prev, inc) == Min(Full, prev + inc)

\* A commit changed `step` and the effect has not run for it yet.
EffectPending == mounted /\ effectStep # step

\* Mutant of AfterCleanup: the effect returns no cleanup.
AfterCleanup_none == intervals

\* return () => clearInterval(timer): the cleanup of the effect that ran with
\* effectStep; an effect that returned early has no cleanup.
AfterCleanup == IF effectStep = "processing" THEN intervals \ {timer} ELSE intervals

\* setInterval returns an id no live interval has.
FreshId(live) == CHOOSE i \in 1..(Cardinality(live) + 1) : i \notin live

\* ------------------------------------------------------- initial state
Init ==
    /\ file = NoFile
    /\ dialogOpen = FALSE
    /\ selectedOptions = <<"mobsf">>
    /\ step = "idle"
    /\ progress = 0
    /\ mounted = TRUE
    /\ effectStep = "idle"
    /\ timer = 0
    /\ intervals = {}
    /\ timeouts = 0
    /\ lastEvent = Ev("mount", "", NoFile)

\* ------------------------------------------------------------- actions
\* Handlers run only while mounted and after the pending effect has run.
Ready == mounted /\ ~EffectPending

\* Mutant of handleFileChange: a file is accepted only while none is selected.
handleFileChange_keepsFirst(nextFile) ==
    /\ Ready
    /\ file' = IF nextFile # NoFile /\ file = NoFile THEN nextFile ELSE file
    /\ lastEvent' = Ev("handleFileChange", "", nextFile)
    /\ UNCHANGED <<dialogOpen, selectedOptions, step, progress, mounted,
                   effectStep, timer, intervals, timeouts>>

\* Mutant of handleFileChange: the `if (nextFile)` test dropped.
handleFileChange_unconditional(nextFile) ==
    /\ Ready
    /\ file' = nextFile
    /\ lastEvent' = Ev("handleFileChange", "", nextFile)
    /\ UNCHANGED <<dialogOpen, selectedOptions, step, progress, mounted,
                   effectStep, timer, intervals, timeouts>>

handleFileChange(nextFile) ==
    /\ Ready
    /\ file' = IF nextFile # NoFile THEN nextFile ELSE file
    /\ lastEvent' = Ev("handleFileChange", "", nextFile)
    /\ UNCHANGED <<dialogOpen, selectedOptions, step, progress, mounted,
                   effectStep, timer, intervals, timeouts>>

\* <Dialog open={dialogOpen} onOpenChange={setDialogOpen}>
setDialogOpen(open) ==
    /\ Ready
    /\ dialogOpen' = open
    /\ lastEvent' = Ev("setDialogOpen", "", NoFile)
    /\ UNCHANGED <<file, selectedOptions, step, progress, mounted,
                   effectStep, timer, intervals, timeouts>>

\* Mutant of toggleOption: the early return for 'mobsf' dropped.
toggleOption_noGuard(optionId) ==
    /\ Ready
    /\ selectedOptions' = ToggledOptions(selectedOptions, optionId)
    /\ lastEvent' = Ev("toggleOption", optionId, NoFile)
    /\ UNCHANGED <<file, dialogOpen, step, progress, mounted,
                   effectStep, timer, intervals, timeouts>>

toggleOption(optionId) ==
    /\ Ready
    /\ selectedOptions' = IF optionId = "mobsf" THEN selectedOptions
                          ELSE ToggledOptions(selectedOptions, optionId)
    /\ lastEvent' = Ev("toggleOption", optionId, NoFile)
    /\ UNCHANGED <<file, dialogOpen, step, progress, mounted,
                   effectStep, timer, intervals, timeouts>>

\* Mutant of startAnalysis: progress reset in the handler as well.
startAnalysis_resetsProgress ==
    /\ Ready
    /\ IF analysisReady
       THEN dialogOpen' = FALSE /\ step' = "processing" /\ progress' = 0
       ELSE UNCHANGED <<dialogOpen, step, progress>>
    /\ lastEvent' = Ev("startAnalysis", "", NoFile)
    /\ UNCHANGED <<file, selectedOptions, mounted,
                   effectStep, timer, intervals, timeouts>>

\* Mutant of startAnalysis: setDialogOpen(false) dropped.
startAnalysis_keepsDialog ==
    /\ Ready
    /\ IF analysisReady
       THEN step' = "processing"
       ELSE UNCHANGED step
    /\ lastEvent' = Ev("startAnalysis", "", NoFile)
    /\ UNCHANGED <<file, dialogOpen, selectedOptions, progress, mounted,
                   effectStep, timer, intervals, timeouts>>

startAnalysis ==
    /\ Ready
    /\ IF analysisReady
       THEN dialogOpen' = FALSE /\ step' = "processing"
       ELSE UNCHANGED <<dialogOpen, step>>
    /\ lastEvent' = Ev("startAnalysis", "", NoFile)
    /\ UNCHANGED <<file, selectedOptions, progress, mounted,
                   effectStep, timer, intervals, timeouts>>

\* Mutant of resetWorkflow: the selected file cleared as well.
resetWorkflow_clearsFile ==
    /\ Ready
    /\ progress' = 0
    /\ step' = "idle"
    /\ file' = NoFile
    /\ lastEvent' = Ev("resetWorkflow", "", NoFile)
    /\ UNCHANGED <<dialogOpen, selectedOptions, mounted,
                   effectStep, timer, intervals, timeouts>>

resetWorkflow ==
    /\ Ready
    /\ progress' = 0
    /\ step' = "idle"
    /\ lastEvent' = Ev("resetWorkflow", "", NoFile)
    /\ UNCHANGED <<file, dialogOpen, selectedOptions, mounted,
                   effectStep, timer, intervals, timeouts>>

\* The effect of lines 115-129, run for a commit that changed `step`: first the
\* cleanup of the previous run, then the body.
RunEffect ==
    /\ EffectPending
    /\ effectStep' = step
    /\ IF step # "processing"
       THEN /\ intervals' = AfterCleanup
            /\ timer' = 0
            /\ UNCHANGED progress
       ELSE /\ progress' = 0
            /\ timer' = FreshId(AfterCleanup)
            /\ intervals' = AfterCleanup \cup {timer'}
    /\ lastEvent' = Ev("effect", "", NoFile)
    /\ UNCHANGED <<file, dialogOpen, selectedOptions, step, mounted, timeouts>>

\* Mutant of Tick: the setTimeout of line 123 dropped.
Tick_noTimeout(i, inc) ==
    /\ mounted /\ ~EffectPending
    /\ i \in intervals
    /\ timeouts = 0
    /\ progress' = NextProgress(progress, inc)
    /\ IF progress' >= Full
       THEN intervals' = intervals \ {i}
       ELSE UNCHANGED intervals
    /\ UNCHANGED timeouts
    /\ lastEvent' = Ev("tick", "", NoFile)
    /\ UNCHANGED <<file, dialogOpen, selectedOptions, step, mounted,
                   effectStep, timer>>

\* Mutant of Tick: the clearInterval of line 122 dropped.
Tick_noClear(i, inc) ==
    /\ mounted /\ ~EffectPending
    /\ i \in intervals
    /\ progress' = NextProgress(progress, inc)
    /\ IF progress' >= Full
       THEN timeouts' = timeouts + 1
       ELSE UNCHANGED timeouts
    /\ UNCHANGED intervals
    /\ lastEvent' = Ev("tick", "", NoFile)
    /\ UNCHANGED <<file, dialogOpen, selectedOptions, step, mounted,
                   effectStep, timer>>

\* One firing of interval i: the setProgress updater of lines 119-126.  Both
\* timers use a delay of 650 ms, so a timeout that is pending was scheduled
\* before any live interval was set and fires before that interval's tick.
Tick(i, inc) ==
    /\ mounted /\ ~EffectPending
    /\ i \in intervals
    /\ timeouts = 0
    /\ progress' = NextProgress(progress, inc)
    /\ IF progress' >= Full
       THEN intervals' = intervals \ {i} /\ timeouts' = timeouts + 1
       ELSE UNCHANGED <<intervals, timeouts>>
    /\ lastEvent' = Ev("tick", "", NoFile)
    /\ UNCHANGED <<file, dialogOpen, selectedOptions, step, mounted,
                   effectStep, timer>>

\* setTimeout(() => setStep('summary'), 650) fires; setStep on an unmounted
\* component does nothing.
Timeout ==
    /\ timeouts > 0
    /\ ~EffectPending
    /\ timeouts' = timeouts - 1
    /\ step' = IF mounted THEN "summary" ELSE step
    /\ lastEvent' = Ev("timeout", "", NoFile)
    /\ UNCHANGED <<file, dialogOpen, selectedOptions, progress, mounted,
                   effectStep, timer, intervals>>

\* The component is torn down: React runs the effect's cleanup.
Unmount ==
    /\ Ready
    /\ mounted' = FALSE
    /\ intervals' = AfterCleanup
    /\ timer' = 0
    /\ lastEvent' = Ev("unmount", "", NoFile)
    /\ UNCHANGED <<file, dialogOpen, selectedOptions, step, progress,
                   effectStep, timeouts>>

Next ==
    \/ \E nextFile \in Files \cup {NoFile} : handleFileChange(nextFile)
    \/ \E open \in BOOLEAN : setDialogOpen(open)
    \/ \E optionId \in OptionIds : toggleOption(optionId)
    \/ startAnalysis
    \/ resetWorkflow
    \/ RunEffect
    \/ \E i \in intervals, inc \in Increments : Tick(i, inc)
    \/ Timeout
    \/ Unmount

Spec == Init /\ [][Next]_vars

\* The runs the liveness claim is about: reset is never called, the component
\* stays mounted and every tick's increment is positive.
PositiveIncrements == {inc \in Increments : inc > 0}

PositiveTick == \E i \in intervals, inc \in PositiveIncrements : Tick(i, inc)

NextLive ==
    \/ \E nextFile \in Files \cup {NoFile} : handleFileChange(nextFile)
    \/ \E open \in BOOLEAN : setDialogOpen(open)
    \/ \E optionId \in OptionIds : toggleOption(optionId)
    \/ startAnalysis
    \/ RunEffect
    \/ PositiveTick
    \/ Timeout

\* React runs a pending effect, a live interval keeps firing and a scheduled
\* timeout fires: the event loop starves none of them.
LiveSpec ==
    /\ Init /\ [][NextLive]_vars
    /\ WF_vars(RunEffect) /\ WF_vars(PositiveTick) /\ WF_vars(Timeout)

TypeOK ==
    /\ file \in Files \cup {NoFile}
    /\ dialogOpen \in BOOLEAN
    /\ step \in WorkflowStep
    /\ effectStep \in WorkflowStep
    /\ mounted \in BOOLEAN
    /\ progress \in Nat
    /\ timeouts \in Nat
    /\ timer \in Nat
    /\ \A i \in 1..Len(selectedOptions) : selectedOptions[i] \in OptionIds

\* ============================================================ claims
Op == lastEvent.op

\* C1: after reset during Processing (also during the delay after progress has
\* reached 100), phase is Idle and progress is 0, and phase stays Idle until the
\* next request start: no tick or delayed transition changes it.
C1_ResetStaysIdle ==
    [][ /\ (lastEvent'.op = "resetWorkflow" => step' = "idle" /\ progress' = 0)
        /\ (step = "idle" /\ lastEvent'.op # "startAnalysis" => step' = "idle")
      ]_vars

\* C2: every step that changes phase to Summary starts with phase = Processing
\* and progress = 100; Summary is never entered from Idle or from a run whose
\* progress is below 100.
C2_SummaryOnlyFromFull ==
    [][ (step # "summary" /\ step' = "summary")
            => (step = "processing" /\ progress = Full) ]_vars

\* C3: phase changes only along Idle -> Processing (request start),
\* Processing -> Summary (delayed transition), Processing -> Idle (reset),
\* Summary -> Idle (reset), Summary -> Processing (request start).
C3_PhaseEdges ==
    [][ step' # step =>
          \/ step = "idle" /\ step' = "processing" /\ lastEvent'.op = "startAnalysis"
          \/ step = "processing" /\ step' = "summary" /\ lastEvent'.op = "timeout"
          \/ step = "processing" /\ step' = "idle" /\ lastEvent'.op = "resetWorkflow"
          \/ step = "summary" /\ step' = "idle" /\ lastEvent'.op = "resetWorkflow"
          \/ step = "summary" /\ step' = "processing" /\ lastEvent'.op = "startAnalysis"
      ]_vars

\* C4: once the phase is not Processing (and its effect cleanup has run), and
\* after the controller is unmounted, no interval is live and no delayed
\* Processing -> Summary transition is pending.
C4_NoOrphanTimers ==
    (~EffectPending /\ (step # "processing" \/ ~mounted))
        => (intervals = {} /\ timeouts = 0)

\* C5: in every reachable state selectedOptions contains the required id 'mobsf'.
C5_RequiredSelected == Includes(selectedOptions, "mobsf")

\* C5 witness: the required id has just been toggled while another scanner is
\* selected as well.
C5_Witness ==
    /\ Op = "toggleOption" /\ lastEvent.option = "mobsf"
    /\ Len(selectedOptions) > 1

\* C6: request start with selectedFile absent changes nothing: phase, progress,
\* dialogOpen, selectedFile, selectedScanners are unchanged and no timer starts.
C6_StartWithoutFileNoOp ==
    [][ (lastEvent'.op = "startAnalysis" /\ file = NoFile)
            => UNCHANGED <<step, progress, dialogOpen, file, selectedOptions,
                           effectStep, timer, intervals, timeouts>> ]_vars

\* C6 witness: request start has just run with no file, the dialog open and a
\* second scanner selected.
C6_Witness ==
    /\ Op = "startAnalysis" /\ file = NoFile
    /\ dialogOpen /\ Len(selectedOptions) > 1 /\ step = "idle"

\* C7: request start in Idle or Summary with a file present and a non-empty
\* scanner selection sets dialogOpen = false and phase = Processing and leaves
\* selectedFile and selectedScanners unchanged.
C7_StartEntersProcessing ==
    [][ ( /\ lastEvent'.op = "startAnalysis"
          /\ step \in {"idle", "summary"}
          /\ file # NoFile /\ Len(selectedOptions) # 0 )
            => ( /\ dialogOpen' = FALSE /\ step' = "processing"
                 /\ UNCHANGED <<file, selectedOptions>> ) ]_vars

\* C7 witness: request start has just moved the phase to Processing (the effect
\* of the new phase has not run yet) with a file and the dialog closed.
C7_Witness ==
    /\ Op = "startAnalysis" /\ step = "processing" /\ effectStep # "processing"
    /\ file # NoFile /\ ~dialogOpen

\* C8: on every entry into Processing progress is 0: no state with
\* phase = Processing holds a progress value carried over from an earlier run.
C8_ProgressZeroOnEntry ==
    [][ (step # "processing" /\ step' = "processing") => progress' = 0 ]_vars

\* C9: progress is within [0,100] in every reachable state, and a timer tick
\* never decreases it.
C9_ProgressBoundedMonotone ==
    /\ [](progress \in 0..Full)
    /\ [][ lastEvent'.op = "tick" => progress' >= progress ]_vars

\* C9 witness: a tick has just clamped progress to 100.
C9_Witness == Op = "tick" /\ progress = Full /\ timeouts = 1

\* C10: reset, in any phase, sets progress = 0 and phase = Idle and leaves
\* selectedFile, selectedScanners and dialogOpen unchanged.
C10_ResetFrame ==
    [][ lastEvent'.op = "resetWorkflow"
            => ( /\ progress' = 0 /\ step' = "idle"
                 /\ UNCHANGED <<file, selectedOptions, dialogOpen>> ) ]_vars

\* C10 witness: reset has just run from a phase other than Idle (its cleanup is
\* still to run), with a file, a second scanner and the dialog state kept.
C10_Witness ==
    /\ Op = "resetWorkflow" /\ step = "idle" /\ progress = 0
    /\ effectStep # "idle"
    /\ file # NoFile /\ Len(selectedOptions) > 1

C12_ToggleRequiredNoOp ==
    [][ (lastEvent'.op = "toggleOption" /\ lastEvent'.option = "mobsf")
            => UNCHANGED <<selectedOptions, file, dialogOpen, step, progress,
                           effectStep, timer, intervals, timeouts>> ]_vars

\* C12 witness: the required id has just been toggled during a processing run.
C12_Witness ==
    /\ Op = "toggleOption" /\ lastEvent.option = "mobsf"
    /\ step = "processing" /\ progress > 0

\* The ids in a selection, as a set.
C13_Selected(sel) == {sel[i] : i \in 1..Len(sel)}

\* C13: toggle scanner(id) for a non-required id flips the membership of id in
\* selectedScanners, keeps the membership of every other id and all other state,
\* and applied twice gives back the same set.
C13_ToggleFlips ==
    /\ [][ (lastEvent'.op = "toggleOption" /\ lastEvent'.option # "mobsf")
              => /\ Includes(selectedOptions', lastEvent'.option)
                        = ~Includes(selectedOptions, lastEvent'.option)
                 /\ \A other \in OptionIds \ {lastEvent'.option} :
                        Includes(selectedOptions', other)
                            = Includes(selectedOptions, other)
                 /\ UNCHANGED <<file, dialogOpen, step, progress,
                                effectStep, timer, intervals, timeouts>> ]_vars
    /\ [](\A id \in OptionIds \ {"mobsf"} :
            C13_Selected(ToggledOptions(ToggledOptions(selectedOptions, id), id))
                = C13_Selected(selectedOptions))

\* C13 witness: a non-required id has just been removed while another
\* non-required id stays selected.
C13_Witness ==
    /\ Op = "toggleOption" /\ lastEvent.option = "mitmproxy"
    /\ ~Includes(selectedOptions, "mitmproxy")
    /\ Len(selectedOptions) > 1

\* C14: set file with a present reference replaces selectedFile by it whatever
\* the prior file was; with an absent reference it changes nothing; in both
\* cases phase, progress, dialogOpen and selectedScanners are unchanged.
C14_SetFileFrame ==
    [][ lastEvent'.op = "handleFileChange"
            => /\ (lastEvent'.nextFile # NoFile => file' = lastEvent'.nextFile)
               /\ (lastEvent'.nextFile = NoFile => file' = file)
               /\ UNCHANGED <<step, progress, dialogOpen, selectedOptions>> ]_vars

\* C14 witness: set file has just stored the second file while a run is in
\* progress and a second scanner is selected.
C14_Witness ==
    /\ Op = "handleFileChange" /\ lastEvent.nextFile = 2 /\ file = 2
    /\ step = "processing" /\ Len(selectedOptions) > 1

\* C15: within one processing run the delayed Processing -> Summary transition
\* is scheduled exactly once, at the tick where progress first reaches 100, and
\* the interval is cleared at that same tick: no tick fires once progress is
\* 100 and no second delayed transition is scheduled.
C15_ScheduledOnceAtFull ==
    /\ [][ lastEvent'.op = "tick"
              => /\ progress < Full
                 /\ (progress' = Full
                        => timeouts' = timeouts + 1 /\ intervals' = {})
                 /\ (progress' < Full => UNCHANGED <<timeouts, intervals>>) ]_vars
    /\ [][ timeouts' > timeouts => lastEvent'.op = "tick" ]_vars
    /\ [](timeouts <= 1)

\* C15 witness: the tick that reached 100 has just cleared the interval and
\* scheduled the one delayed transition of the run.
C15_Witness ==
    /\ Op = "tick" /\ step = "processing" /\ progress = Full
    /\ intervals = {} /\ timeouts = 1 /\ timer # 0

\* C16: at most one interval is live at any time, and one is live only for a
\* Processing phase (until the cleanup of the commit that left it has run): no
\* tick changes progress while phase is Idle or Summary, and a run never ticks
\* from two intervals.
C16_OneTimerOnlyWhileProcessing ==
    /\ [](Cardinality(intervals) <= 1)
    /\ [](intervals # {} => (step = "processing" \/ EffectPending))
    /\ [][ lastEvent'.op = "tick"
              => step = "processing" /\ Cardinality(intervals) = 1 ]_vars
    /\ [][ (step # "processing" /\ progress' # progress)
              => lastEvent'.op = "resetWorkflow" ]_vars

\* C16 witness: a tick of the single live interval has just advanced a run.
C16_Witness ==
    /\ Op = "tick" /\ step = "processing" /\ Cardinality(intervals) = 1
    /\ progress > 0 /\ progress < Full /\ timer = 1 /\ ~dialogOpen

\* C17: the empty scanner selection is unreachable, so in every reachable state
\* analysisReady holds exactly when a file is selected.
C17_ReadyIffFile ==
    /\ Len(selectedOptions) # 0
    /\ (analysisReady <=> file # NoFile)

\* C17 witness: with a file selected, the last non-required scanner has just
\* been deselected, leaving the smallest selection there is.
C17_Witness ==
    /\ Op = "toggleOption" /\ lastEvent.option # "mobsf"
    /\ Len(selectedOptions) = 1 /\ file # NoFile /\ analysisReady

\* C18: selectedFile, once present, never becomes absent, and phase Processing
\* or Summary implies that a file is present.
C18_FileStaysPresent ==
    /\ [][ file # NoFile => file' # NoFile ]_vars
    /\ [](step \in {"processing", "summary"} => file # NoFile)

\* C18 witness: set file has just been called with no file (picker cancelled)
\* in phase Summary, and the file is still there.
C18_Witness ==
    /\ Op = "handleFileChange" /\ lastEvent.nextFile = NoFile
    /\ file # NoFile /\ step = "summary"

\* C19: request start while phase is already Processing does not restart the
\* run: phase stays Processing, progress keeps its value, the interval keeps
\* running, no second interval or delayed transition is created and no effect
\* is left to run; only dialogOpen is set to false.
C19_StartWhileProcessing ==
    [][ (lastEvent'.op = "startAnalysis" /\ step = "processing")
            => /\ step' = "processing" /\ progress' = progress
               /\ dialogOpen' = FALSE
               /\ ~EffectPending'
               /\ UNCHANGED <<file, selectedOptions, effectStep, timer,
                              intervals, timeouts>> ]_vars

\* C19 witness: request start has just run in the middle of a run whose
\* interval is still live.
C19_Witness ==
    /\ Op = "startAnalysis" /\ step = "processing" /\ effectStep = "processing"
    /\ progress > 0 /\ progress < Full /\ intervals = {timer} /\ ~dialogOpen
====
